---- MODULE Spec2Model ----
(***************************************************************************)
(* Coordinator control plane of ANTIGRAVITYCOMMANDER:                      *)
(*   src/master_coordinator.py   MasterCoordinator                         *)
(*   src/backend/task_router.py  IntelligentTaskRouter                     *)
(*                                                                         *)
(* Spec        the coordinator driven by frames arriving on its streams;   *)
(*             assign_task_to_agent is split at its network send, the one  *)
(*             await after which the handler still writes shared state.    *)
(* RouterSpec  the router driven directly through its public methods.      *)
(* FailSpec    Spec with agents whose task execution may raise             *)
(*             (src/init_cli.py), and the event loop resuming sends.       *)
(* BroadcastSpec, BroadcastFairSpec                                        *)
(*             registration and assignment with broadcast_system_status    *)
(*             unfolded send by send; the fair one resumes pending sends.  *)
(* MonitorSpec the inventory under heartbeats and monitor_agents' passes.  *)
(* SyncSpec    src/sync_manager.py SyncManager: updates, subscriptions and *)
(*             the sync worker.  GetSpec: get_context on stored entries.   *)
(* ClientSpec, ClientFairSpec                                              *)
(*             src/init_cli.py AntiGravityCLI: connection manager, its     *)
(*             workers and src/intelligent_cache.py IntelligentCache; the  *)
(*             fair one lets the processor and the requester run.          *)
(* RebalanceSpec, ScoreSpec                                                *)
(*             rebalance_load and _calculate_agent_score of the router on  *)
(*             inventories and clock readings drawn by the initial state.  *)
(* DashSpec    src/backend/dashboard_server.py DashboardManager.           *)
(*                                                                         *)
(* Numbers: times are whole seconds; avg_duration is kept in milliseconds  *)
(* and scores in thousandths of a point (fixed point for Python floats).   *)
(***************************************************************************)
EXTENDS Integers, Sequences, FiniteSets, TLC

\* ------------------------------------------------------------------ bounds
\* Spec: tasks alive in the coordinator, decisions in the routing log
MaxTasks == 2
MaxRoutes == 2
\* RouterSpec: logged decisions, reported completions, clock steps
MaxRouterRoutes == 2
MaxReports == 1
MaxTicks == 1
TickSeconds == 301
\* MonitorSpec: turns of the monitor's sleep
MaxMonitorTicks == 3

\* ------------------------------------------------------- program constants
LowLoadLimit == 3
BaseScore == 100
SpecializationWeight == 40
CapabilityBonus == 20
LoadPenalty == 15
SuccessWeight == 20
SpeedWeight == 10
ContextBonus == 15
IdleBonus == 10
IdleSeconds == 300
RecentSeconds == 600
OverlapWords == 3
DaySeconds == 86400
HeartbeatTimeout == 60
MonitorInterval == 30

\* ------------------------------------------------------------ input sets
AgentIds == {"A", "B"}
Streams == {"s1", "s2"}
NoAgent == "none"
NoType == "none"
NoTime == -1
TaskTypes == {"general", "code"}
CapSets == {{"general"}, {"code"}}
\* What the TASK_DELEGATION frames of the coordinator runs carry.
DelegatedTypes == {"general"}
DelegatedDescs == {{"w1", "w2", "w3", "w4"}}
HeartbeatStatuses == {"idle", "busy"}
\* AGENT_CAPABILITIES of each agent process (its configuration)
DeclaredCaps == [a \in AgentIds |-> IF a = "A" THEN {"general"} ELSE {"code"}]
\* MAX_CONCURRENT_TASKS of each agent process (its configuration)
DeclaredMaxConcurrent == [a \in AgentIds |-> 1]

\* What the direct router calls carry.
RouterTasks ==
    {[id |-> 0, type |-> "general", priority |-> "normal",
      description |-> {"w1", "w2", "w3", "w4"}],
     [id |-> 0, type |-> "code", priority |-> "high",
      description |-> {"w1", "w2", "w3", "w4"}],
     [id |-> 0, type |-> NoType, priority |-> "normal",
      description |-> {"w1", "w2", "w3"}]}
Durations == {0, 2}

\* Lexicographic order of the agent ids.
IdRank(a) == IF a = "A" THEN 1 ELSE 2

\* ------------------------------------------------------------ agent client
MaxAttempts == 6
MaxClientTasks == 2
InitialDelay == 5
MaxDelay == 60
\* frames on one connection after which the timers send no more
MaxFrames == 4

\* AUTO_REQUEST_TASKS defaults to 'true'
AutoRequestTasks == TRUE

\* TASK_ASSIGNMENT frames for the agent: two tasks of one type and description
\* and one of another description.
ClientTasks ==
    {[id |-> 1, type |-> "general", description |-> "d1"],
     [id |-> 2, type |-> "general", description |-> "d1"],
     [id |-> 3, type |-> "general", description |-> "d2"]}

\* The asyncio tasks _connection_manager has created that have not ended
NoWorkers ==
    [processor |-> 0, heartbeat |-> 0, auto_request |-> 0, receiver |-> 0]

\* AntiGravityCLI.__init__; fails counts the failures since the last
\* successful connect, attempts the connects tried, frames holds what was
\* written to the connection ws_connection refers to.
NewClient ==
    [pc |-> "connect", ws |-> "none", reconnect_delay |-> InitialDelay,
     status |-> "initializing", task_queue |-> <<>>, processor |-> "running",
     fails |-> 0, attempts |-> 0, received |-> 0, workers |-> NoWorkers,
     frames |-> <<>>]

VARIABLES
    agents,           \* MasterCoordinator.agents: agent_id -> record
    task_queue,       \* MasterCoordinator.task_queue (FIFO)
    active_tasks,     \* MasterCoordinator.active_tasks: task id -> record
    completed_tasks,  \* MasterCoordinator.completed_tasks (list)
    router_keys,      \* insertion order of router.agents (dict order)
    router_agents,    \* router.agents: agent_id -> record
    task_history,     \* router.task_history (list)
    routing_stats,    \* router.routing_stats: task type -> list of decisions
    conn,             \* per stream: handle_connection's locals and position
    ws_open,          \* per stream: the websocket is still open
    now,              \* datetime.now(), seconds
    enqueued,         \* ids of every task ever put into task_queue by a handler
    dropped,          \* a TASK_COMPLETE frame for an id not in active_tasks came
    failed,           \* agent side: ids of the tasks whose execution raised
    shared_context,   \* SyncManager.shared_context: key -> entry
    context_history,  \* SyncManager.context_history (list)
    subscriptions,    \* SyncManager.subscriptions, in dict order
    sync_queue,       \* SyncManager.sync_queue (FIFO)
    delivered,        \* notifications the sync worker took from sync_queue
    got,              \* what the get_context calls returned
    client,           \* AntiGravityCLI: connection manager and task processor
    cache,            \* IntelligentCache entries of the agent: full key, value
    events,           \* agent side: what became of each task pulled, in order
    bcast,            \* per stream: broadcast_system_status's loop position
    stalled,          \* streams whose peer has stopped reading
    status_sent,      \* <<origin, stream>>: SYSTEM_STATUS_UPDATE frames sent
    ret,              \* what the last direct call of a router method returned
    dash_queue,       \* DashboardManager.task_queue (list)
    dash_active,      \* DashboardManager.active_tasks: task id -> task
    dash_completed    \* DashboardManager.completed_tasks (list)

\* SyncManager (src/sync_manager.py)
syncVars == <<shared_context, context_history, subscriptions, sync_queue,
              delivered, got>>

\* AntiGravityCLI (src/init_cli.py)
clientVars == <<client, cache, events>>

\* broadcast_system_status (src/master_coordinator.py) send by send
bcastVars == <<bcast, stalled, status_sent>>

\* DashboardManager (src/backend/dashboard_server.py) and direct calls
dashVars == <<ret, dash_queue, dash_active, dash_completed>>

otherVars == <<syncVars, clientVars, bcastVars, dashVars>>

mainVars == <<agents, task_queue, active_tasks, completed_tasks, router_keys,
              router_agents, task_history, routing_stats, conn, ws_open, now,
              enqueued, dropped, failed>>

vars == <<agents, task_queue, active_tasks, completed_tasks, router_keys,
          router_agents, task_history, routing_stats, conn, ws_open, now,
          enqueued, dropped, failed, otherVars>>

coordVars == <<agents, task_queue, active_tasks, completed_tasks, conn,
               ws_open, enqueued, dropped, failed, otherVars>>

\* ------------------------------------------------------------- dict helpers
Put(f, k, v) == [x \in (DOMAIN f) \cup {k} |-> IF x = k THEN v ELSE f[x]]

Del(f, k) == [x \in (DOMAIN f) \ {k} |-> f[x]]

EmptyDict == [x \in {} |-> 0]

\* No call has returned yet.
NoRet == <<"none">>

Max(a, b) == IF a >= b THEN a ELSE b

\* task.get('type', 'general')
TaskGetType(task) == IF task.type = NoType THEN "general" ELSE task.type

\* timedelta.seconds of (t2 - t1): the days component is dropped.
TimedeltaSeconds(t2, t1) == (t2 - t1) % DaySeconds

\* ------------------------------------------------------------------ router
NewRouterAgent(caps) ==
    [capabilities |-> caps, status |-> "idle", current_load |-> 0,
     total_tasks |-> 0, successful_tasks |-> 0, failed_tasks |-> 0,
     avg_duration |-> 0, specializations |-> EmptyDict,
     last_task_time |-> NoTime]

\* IntelligentTaskRouter.register_agent: result <<keys, agents>>
RouterRegisterAgent(keys, ra, a, caps) ==
    <<IF a \in DOMAIN ra THEN keys ELSE Append(keys, a),
      Put(ra, a, NewRouterAgent(caps))>>

IsEligible(ra, a, task) ==
    /\ (ra[a].status = "idle" \/ ra[a].current_load < LowLoadLimit)
    /\ (TaskGetType(task) \in ra[a].capabilities
        \/ "general" \in ra[a].capabilities)

\* IntelligentTaskRouter._find_eligible_agents: in dict order
FindEligibleAgents(keys, ra, task) ==
    SelectSeq(keys, LAMBDA a : IsEligible(ra, a, task))

\* IntelligentTaskRouter._has_similar_context
HasSimilarContext(hist, t, a, task) ==
    \E i \in 1..Len(hist) :
        /\ hist[i].agent_id = a
        /\ TimedeltaSeconds(t, hist[i].timestamp) < RecentSeconds
        /\ Cardinality(task.description \cap hist[i].task.description)
               > OverlapWords

\* A score that takes no account of the load.
LoadPenaltyNone(load) == 0

\* load_penalty = agent['current_load'] * 15, in thousandths
LoadPenaltyOf(load) == load * LoadPenalty * 1000

\* IntelligentTaskRouter._calculate_agent_score, in thousandths
CalculateAgentScore(ra, hist, t, a, task) ==
    LET agent == ra[a]
        ty == TaskGetType(task)
        s1 == IF ty \in DOMAIN agent.specializations
                THEN agent.specializations[ty].success_rate * SpecializationWeight
                ELSE IF ty \in agent.capabilities
                       THEN CapabilityBonus * 1000 ELSE 0
        s2 == LoadPenaltyOf(agent.current_load)
        s3 == IF agent.total_tasks > 0
                THEN (agent.successful_tasks * SuccessWeight * 1000)
                         \div agent.total_tasks
                ELSE 0
        s4 == IF agent.avg_duration > 0 /\ task.priority = "high"
                THEN (SpeedWeight * 1000 * 1000) \div (agent.avg_duration + 1000)
                ELSE 0
        s5 == IF HasSimilarContext(hist, t, a, task)
                THEN ContextBonus * 1000 ELSE 0
        s6 == IF agent.last_task_time # NoTime
                   /\ TimedeltaSeconds(t, agent.last_task_time) > IdleSeconds
                THEN IdleBonus * 1000 ELSE 0
    IN Max(0, BaseScore * 1000 + s1 - s2 + s3 + s4 + s5 + s6)

\* scored_agents.sort(key=score, reverse=True)[0][0]: the sort is stable, so
\* among the top scores the first in dict order is taken.
BestOf(elig, score) ==
    LET top == CHOOSE i \in 1..Len(elig) :
                 /\ \A j \in 1..Len(elig) : score[elig[j]] <= score[elig[i]]
                 /\ \A j \in 1..(i - 1) : score[elig[j]] < score[elig[i]]
    IN elig[top]

\* IntelligentTaskRouter._log_routing_decision
LogRoutingDecision(stats, task, best) ==
    LET old == IF task.type \in DOMAIN stats THEN stats[task.type] ELSE <<>>
    IN Put(stats, task.type,
           Append(old, [task |-> task, selected_agent |-> best]))

\* IntelligentTaskRouter.route_task: ret is the agent returned, or "raise"
RouteTask(keys, ra, hist, stats, t, task) ==
    LET elig == FindEligibleAgents(keys, ra, task)
    IN IF elig = <<>>
         THEN [ret |-> "raise", agents |-> ra, stats |-> stats]
         ELSE LET score == [a \in AgentIds |->
                              IF a \in DOMAIN ra
                                THEN CalculateAgentScore(ra, hist, t, a, task)
                                ELSE 0]
                  best == BestOf(elig, score)
                  ra2 == [ra EXCEPT ![best].status = "busy",
                                    ![best].current_load = @ + 1]
              IN IF task.type = NoType
                   \* task['type'] in _log_routing_decision: KeyError
                   THEN [ret |-> "raise", agents |-> ra2, stats |-> stats]
                   ELSE [ret |-> best, agents |-> ra2,
                         stats |-> LogRoutingDecision(stats, task, best)]

\* A completion that lets current_load go below zero.
LoadAfterCompletionNoFloor(load) == load - 1

\* agent['current_load'] = max(0, agent['current_load'] - 1)
LoadAfterCompletion(load) == Max(0, load - 1)

\* A completion counted on the wrong side.
CountOutcomeInverted(n, hit) == IF hit THEN n ELSE n + 1

\* if success: successful_tasks += 1 else: failed_tasks += 1
CountOutcome(n, hit) == IF hit THEN n + 1 ELSE n

NewSpecialization ==
    [total |-> 0, successful |-> 0, avg_duration |-> 0, success_rate |-> 0]

\* A completion that always frees the agent.
StatusAfterCompletionAlwaysIdle(status, load) == "idle"

\* if agent['current_load'] == 0: agent['status'] = 'idle'
StatusAfterCompletion(status, load) == IF load = 0 THEN "idle" ELSE status

\* IntelligentTaskRouter.report_task_completion: the agent's new record
ReportAgent(agent, t, task, success, duration) ==
    LET ty == TaskGetType(task)
        old == IF ty \in DOMAIN agent.specializations
                 THEN agent.specializations[ty] ELSE NewSpecialization
        succ == CountOutcome(old.successful, success)
        spec == [total |-> old.total + 1,
                 successful |-> succ,
                 success_rate |-> (succ * 1000) \div (old.total + 1),
                 avg_duration |-> (old.avg_duration * 8 + duration * 1000 * 2)
                                      \div 10]
        load == LoadAfterCompletion(agent.current_load)
    IN [agent EXCEPT
          !.total_tasks = @ + 1,
          !.current_load = load,
          !.last_task_time = t,
          !.successful_tasks = CountOutcome(@, success),
          !.failed_tasks = CountOutcome(@, ~success),
          !.avg_duration = IF @ = 0 THEN duration * 1000
                           ELSE (@ * 8 + duration * 1000 * 2) \div 10,
          !.specializations = Put(@, ty, spec),
          !.status = StatusAfterCompletion(@, load)]

\* IntelligentTaskRouter.report_task_completion: result <<agents, history>>
ReportTaskCompletion(ra, hist, t, a, task, success, duration) ==
    IF a \notin DOMAIN ra
      THEN <<ra, hist>>
      ELSE <<[ra EXCEPT ![a] = ReportAgent(ra[a], t, task, success, duration)],
             Append(hist, [agent_id |-> a, task |-> task, success |-> success,
                           duration |-> duration, timestamp |-> t])>>

\* ------------------------------------------------------------- coordinator
NoPending ==
    [id |-> 0, type |-> "general", priority |-> "normal", description |-> {}]

\* No broadcast in progress on a stream.
NoBroadcast == [agent |-> NoAgent, i |-> 0, n |-> 0, ws |-> "s1"]

IdleConn(a) ==
    [agent_id |-> a, pc |-> "recv", task |-> NoPending, best |-> NoAgent,
     ws |-> "s1"]

LogLen(stats) ==
    LET RECURSIVE Sum(_)
        Sum(S) == IF S = {} THEN 0
                  ELSE LET k == CHOOSE x \in S : TRUE
                       IN Len(stats[k]) + Sum(S \ {k})
    IN Sum(DOMAIN stats)

InFlight == Cardinality({s \in Streams : conn[s].pc = "send"})

LiveTasks ==
    Len(task_queue) + Cardinality(DOMAIN active_tasks)
        + Len(completed_tasks) + InFlight

\* MasterCoordinator._can_handle_task: TRUE, FALSE or "raise" (task['type'])
CanHandleTask(a, task) ==
    IF a \notin DOMAIN agents THEN "false"
    ELSE IF "general" \in agents[a].capabilities THEN "true"
    ELSE IF task.type = NoType THEN "raise"
    ELSE IF task.type \in agents[a].capabilities THEN "true" ELSE "false"

\* MasterCoordinator.assign_task_to_agent up to its await on websocket.send,
\* run by the handler of stream s on queue q for requesting agent req.
AssignTaskToAgent(s, req, q) ==
    IF q = <<>>
      THEN /\ task_queue' = q
           /\ UNCHANGED <<conn, router_agents, routing_stats>>
      ELSE
        LET task == Head(q)
            can == IF req = NoAgent THEN "false" ELSE CanHandleTask(req, task)
            r == RouteTask(router_keys, router_agents, task_history,
                           routing_stats, now, task)
            routed == can = "false"
            best == IF can = "true" THEN req
                    ELSE IF can = "raise" THEN NoAgent
                    ELSE IF r.ret # "raise" THEN r.ret
                    ELSE req
        IN /\ routed /\ r.ret # "raise" => LogLen(routing_stats) < MaxRoutes
           /\ router_agents' = IF routed THEN r.agents ELSE router_agents
           /\ routing_stats' = IF routed THEN r.stats ELSE routing_stats
           /\ IF best = NoAgent \/ best \notin DOMAIN agents
                THEN /\ task_queue' = Append(Tail(q), task)
                     /\ UNCHANGED conn
                ELSE /\ task_queue' = Tail(q)
                     /\ conn' = [conn EXCEPT ![s] =
                                   [agent_id |-> conn[s].agent_id,
                                    pc |-> "send", task |-> task,
                                    best |-> best,
                                    ws |-> agents[best].websocket]]

\* assign_task_to_agent from the return of websocket.send: the frame went out
\* and the active-map entry is written, or send raised and the task is put back.
AssignSendDone(s) ==
    /\ conn[s].pc = "send"
    /\ IF ws_open[conn[s].ws]
         THEN /\ active_tasks' = Put(active_tasks, conn[s].task.id,
                                     [task |-> conn[s].task,
                                      agent |-> conn[s].best,
                                      started_at |-> now])
              /\ UNCHANGED task_queue
         ELSE /\ task_queue' = Append(task_queue, conn[s].task)
              /\ UNCHANGED active_tasks
    /\ conn' = [conn EXCEPT ![s] = IdleConn(conn[s].agent_id)]
    /\ UNCHANGED <<agents, completed_tasks, router_keys, router_agents,
                   task_history, routing_stats, ws_open, now, enqueued, dropped, failed, otherVars>>

\* A re-registration that keeps the session handle of the first one.
NewAgentEntryKeepsSession(a, caps, s) ==
    [capabilities |-> caps,
     max_concurrent_tasks |-> DeclaredMaxConcurrent[a],
     websocket |-> IF a \in DOMAIN agents THEN agents[a].websocket ELSE s,
     status |-> "idle", last_heartbeat |-> NoTime]

\* self.agents[agent_id] = {**agent_data, 'websocket': ..., 'status': 'idle'}
NewAgentEntry(a, caps, s) ==
    [capabilities |-> caps,
     max_concurrent_tasks |-> DeclaredMaxConcurrent[a],
     websocket |-> s, status |-> "idle", last_heartbeat |-> NoTime]

\* MasterCoordinator.register_agent on an AGENT_REGISTER frame.  A client
\* registers once per connection (src/init_cli.py, _connection_manager), so
\* a re-registration arrives on another stream.
AgentRegister(s, a, caps) ==
    /\ conn[s].pc = "recv"
    /\ conn[s].agent_id = NoAgent
    /\ agents' = Put(agents, a, NewAgentEntry(a, caps, s))
    /\ router_keys' = RouterRegisterAgent(router_keys, router_agents, a, caps)[1]
    /\ router_agents' = RouterRegisterAgent(router_keys, router_agents, a, caps)[2]
    /\ conn' = [conn EXCEPT ![s].agent_id = a]
    /\ UNCHANGED <<task_queue, active_tasks, completed_tasks, task_history,
                   routing_stats, ws_open, now, enqueued, dropped, failed, otherVars>>

\* MasterCoordinator.handle_heartbeat; a client reports its own agent_id
Heartbeat(s, a, st) ==
    /\ conn[s].pc = "recv"
    /\ conn[s].agent_id = a
    /\ a \in DOMAIN agents
    /\ agents' = [agents EXCEPT ![a].last_heartbeat = now, ![a].status = st]
    /\ UNCHANGED <<task_queue, active_tasks, completed_tasks, router_keys,
                   router_agents, task_history, routing_stats, conn, ws_open,
                   now, enqueued, dropped, failed, otherVars>>

\* TASK_REQUEST: assign_task_to_agent(agent_id of this stream)
TaskRequest(s) ==
    /\ conn[s].pc = "recv"
    /\ AssignTaskToAgent(s, conn[s].agent_id, task_queue)
    /\ UNCHANGED <<agents, active_tasks, completed_tasks, router_keys,
                   task_history, ws_open, now, enqueued, dropped, failed, otherVars>>

\* A completion handler that marks the agent idle for any frame.
MarkIdleAlways(a, known) ==
    IF a \in DOMAIN agents
      THEN [agents EXCEPT ![a].status = "idle"] ELSE agents

\* if task_id in self.active_tasks: ... if agent_id in self.agents:
\*     self.agents[agent_id]['status'] = 'idle'
MarkIdle(a, known) ==
    IF known /\ a \in DOMAIN agents
      THEN [agents EXCEPT ![a].status = "idle"] ELSE agents

\* MasterCoordinator.handle_task_completion
TaskComplete(s, tid, a) ==
    /\ conn[s].pc = "recv"
    /\ agents' = MarkIdle(a, tid \in DOMAIN active_tasks)
    /\ IF tid \in DOMAIN active_tasks
         THEN LET info == active_tasks[tid]
                  duration == now - info.started_at
                  rep == ReportTaskCompletion(router_agents, task_history, now,
                                              a, info.task, TRUE, duration)
              IN /\ router_agents' = rep[1]
                 /\ task_history' = rep[2]
                 /\ completed_tasks' = Append(completed_tasks,
                        [task |-> info.task, agent |-> info.agent,
                         duration |-> duration])
                 /\ active_tasks' = Del(active_tasks, tid)
                 /\ UNCHANGED dropped
         ELSE /\ dropped' = TRUE
              /\ UNCHANGED <<router_agents, task_history, completed_tasks,
                             active_tasks>>
    /\ UNCHANGED <<task_queue, router_keys, routing_stats, conn, ws_open, now,
                   enqueued, failed, otherVars>>

\* f"task_{len(self.completed_tasks) + len(self.active_tasks)}_del"
DelegationId == Len(completed_tasks) + Cardinality(DOMAIN active_tasks)

\* MasterCoordinator.handle_delegation
TaskDelegation(s, to, ty, desc) ==
    /\ conn[s].pc = "recv"
    /\ LiveTasks < MaxTasks
    /\ LET new_task == [id |-> DelegationId,
                        type |-> ty, priority |-> "normal",
                        description |-> desc]
           q == Append(task_queue, new_task)
       IN /\ enqueued' = enqueued \cup {new_task.id}
          /\ IF to \in DOMAIN agents /\ agents[to].status = "idle"
               THEN AssignTaskToAgent(s, to, q)
               ELSE /\ task_queue' = q
                    /\ UNCHANGED <<conn, router_agents, routing_stats>>
    /\ UNCHANGED <<agents, active_tasks, completed_tasks, router_keys,
                   task_history, ws_open, now, dropped, failed, otherVars>>

\* The peer or the network closes the stream.
TransportClose(s) ==
    /\ ws_open[s]
    /\ ws_open' = [ws_open EXCEPT ![s] = FALSE]
    /\ UNCHANGED <<agents, task_queue, active_tasks, completed_tasks,
                   router_keys, router_agents, task_history, routing_stats,
                   conn, now, enqueued, dropped, failed, otherVars>>

\* handle_connection: ConnectionClosed raised by the receive loop
ConnectionClosed(s) ==
    /\ conn[s].pc = "recv"
    /\ ~ws_open[s]
    /\ agents' = IF conn[s].agent_id # NoAgent
                    /\ conn[s].agent_id \in DOMAIN agents
                   THEN [agents EXCEPT ![conn[s].agent_id].status =
                                           "disconnected"]
                   ELSE agents
    /\ conn' = [conn EXCEPT ![s].pc = "done"]
    /\ UNCHANGED <<task_queue, active_tasks, completed_tasks, router_keys,
                   router_agents, task_history, routing_stats, ws_open, now,
                   enqueued, dropped, failed, otherVars>>

\* handle_connection: the peer closed the stream with a normal close code; the
\* `async for` over the websocket ends without raising (the websockets
\* iterator swallows ConnectionClosedOK), so the except clause does not run.
LoopEnds(s) ==
    /\ conn[s].pc = "recv"
    /\ ~ws_open[s]
    /\ conn' = [conn EXCEPT ![s].pc = "done"]
    /\ UNCHANGED <<agents, task_queue, active_tasks, completed_tasks,
                   router_keys, router_agents, task_history, routing_stats,
                   ws_open, now, enqueued, dropped, failed, otherVars>>

\* handle_connection: json.loads(message) raises on a frame that does not
\* decode.  Only ConnectionClosed is caught, so the error leaves the handler
\* and the server closes the stream.
MalformedFrame(s) ==
    /\ conn[s].pc = "recv"
    /\ ws_open[s]
    /\ conn' = [conn EXCEPT ![s].pc = "done"]
    /\ ws_open' = [ws_open EXCEPT ![s] = FALSE]
    /\ UNCHANGED <<agents, task_queue, active_tasks, completed_tasks,
                   router_keys, router_agents, task_history, routing_stats,
                   now, enqueued, dropped, failed, otherVars>>

\* The clock advances.
Tick ==
    /\ now < MaxTicks * TickSeconds
    /\ now' = now + TickSeconds
    /\ UNCHANGED <<agents, task_queue, active_tasks, completed_tasks,
                   router_keys, router_agents, task_history, routing_stats,
                   conn, ws_open, enqueued, dropped, failed, otherVars>>

Init ==
    /\ agents = EmptyDict
    /\ task_queue = <<>>
    /\ active_tasks = EmptyDict
    /\ completed_tasks = <<>>
    /\ router_keys = <<>>
    /\ router_agents = EmptyDict
    /\ task_history = <<>>
    /\ routing_stats = EmptyDict
    /\ conn = [s \in Streams |-> IdleConn(NoAgent)]
    /\ ws_open = [s \in Streams |-> TRUE]
    /\ now = 0
    /\ enqueued = {}
    /\ dropped = FALSE
    /\ failed = {}
    /\ shared_context = EmptyDict
    /\ context_history = <<>>
    /\ subscriptions = <<>>
    /\ sync_queue = <<>>
    /\ delivered = <<>>
    /\ got = <<>>
    /\ client = NewClient
    /\ cache = {}
    /\ events = <<>>
    /\ bcast = [s \in Streams |-> NoBroadcast]
    /\ stalled = {}
    /\ status_sent = {}
    /\ ret = NoRet
    /\ dash_queue = <<>>
    /\ dash_active = EmptyDict
    /\ dash_completed = <<>>

Next ==
    \/ \E s \in Streams, a \in AgentIds :
           AgentRegister(s, a, DeclaredCaps[a])
    \/ \E s \in Streams, a \in AgentIds, st \in HeartbeatStatuses :
           Heartbeat(s, a, st)
    \/ \E s \in Streams : TaskRequest(s)
    \/ \E s \in Streams, tid \in 0..MaxTasks, a \in AgentIds :
           TaskComplete(s, tid, a)
    \/ \E s \in Streams, to \in AgentIds, ty \in DelegatedTypes, desc \in DelegatedDescs :
           TaskDelegation(s, to, ty, desc)
    \/ \E s \in Streams : AssignSendDone(s)
    \/ \E s \in Streams : TransportClose(s)
    \/ \E s \in Streams : ConnectionClosed(s)
    \/ \E s \in Streams : LoopEnds(s)
    \/ \E s \in Streams : MalformedFrame(s)

\* The steps of the handler of stream s that call broadcast_system_status.
StatusBroadcast(s) ==
    \/ \E a \in AgentIds : AgentRegister(s, a, DeclaredCaps[a])
    \/ \E tid \in 0..MaxTasks, a \in AgentIds :
           tid \in DOMAIN active_tasks /\ TaskComplete(s, tid, a)
    \/ /\ conn[s].agent_id # NoAgent
       /\ conn[s].agent_id \in DOMAIN agents
       /\ ConnectionClosed(s)

\* The coordinator within one clock reading: its handlers stamp records with
\* the clock; elapsed time is explored on the router (RouterSpec).
Spec == Init /\ [][Next]_vars

\* ------------------------------------------------------------ agent side
\* src/init_cli.py _task_processor: _execute_task raises on an assigned task.
\* The error goes to AgentReporter.report_error, an HTTP POST to the dashboard
\* server; nothing is written to the coordinator's stream.
TaskFails(tid) ==
    /\ tid \in DOMAIN active_tasks
    /\ tid \notin failed
    /\ failed' = failed \cup {tid}
    /\ UNCHANGED <<agents, task_queue, active_tasks, completed_tasks,
                   router_keys, router_agents, task_history, routing_stats,
                   conn, ws_open, now, enqueued, dropped, otherVars>>

FailNext ==
    \/ Next
    \/ \E tid \in 0..MaxTasks : TaskFails(tid)

\* The coordinator with agents whose tasks may fail.  A handler suspended in
\* its send is resumed by the event loop; frames arrive as the peers please.
FailSpec ==
    Init /\ [][FailNext]_vars /\ \A s \in Streams : WF_vars(AssignSendDone(s))

\* ------------------------------------------------------ direct router calls
\* router.register_agent(a, caps)
RegisterAgentCall(a, caps) ==
    /\ router_keys' = RouterRegisterAgent(router_keys, router_agents, a, caps)[1]
    /\ router_agents' = RouterRegisterAgent(router_keys, router_agents, a, caps)[2]
    /\ UNCHANGED <<coordVars, task_history, routing_stats, now>>

\* router.route_task(task); the caller sees the agent returned or the raise
RouteTaskCall(task) ==
    LET r == RouteTask(router_keys, router_agents, task_history,
                       routing_stats, now, task)
    IN /\ r.ret # "raise" => LogLen(routing_stats) < MaxRouterRoutes
       /\ router_agents' = r.agents
       /\ routing_stats' = r.stats
       /\ UNCHANGED <<coordVars, router_keys, task_history, now>>

\* router.report_task_completion(a, task, success, duration)
ReportCompletionCall(a, task, success, duration) ==
    LET rep == ReportTaskCompletion(router_agents, task_history, now, a, task,
                                    success, duration)
    IN /\ Len(task_history) < MaxReports
       /\ router_agents' = rep[1]
       /\ task_history' = rep[2]
       /\ UNCHANGED <<coordVars, router_keys, routing_stats, now>>

RouterNext ==
    \/ \E a \in AgentIds, caps \in CapSets : RegisterAgentCall(a, caps)
    \/ \E task \in RouterTasks : RouteTaskCall(task)
    \/ \E a \in AgentIds, task \in RouterTasks, success \in BOOLEAN,
          duration \in Durations :
           ReportCompletionCall(a, task, success, duration)
    \/ Tick

RouterSpec == Init /\ [][RouterNext]_vars

\* ------------------------------------------------- broadcast, send by send
\* for agent in self.agents.values(): the coordinator's agents and the
\* router's agents are inserted together in register_agent and never deleted,
\* so both dicts have the same order.
AgentOrder == router_keys

\* A send on stream t does not return: the peer has stopped reading and the
\* stream is still open (on a closed stream send raises).
Blocked(t) == t \in stalled /\ ws_open[t]

\* The handler of stream s enters the body of broadcast_system_status's loop
\* for the agent at position i: agent['websocket'] is read and the send
\* starts, which writes the frame to an open stream before it waits.
\* a is register_agent's local agent_id, n the size of the inventory when the
\* loop began.
BroadcastAt(s, a, i, n, ags, keys) ==
    /\ conn' = [conn EXCEPT ![s].pc = "bcast"]
    /\ bcast' = [bcast EXCEPT ![s] =
                    [agent |-> a, i |-> i, n |-> n,
                     ws |-> ags[keys[i]].websocket]]
    /\ status_sent' = IF ws_open[ags[keys[i]].websocket]
                        THEN status_sent \cup {<<s, ags[keys[i]].websocket>>}
                        ELSE status_sent

\* register_agent up to the first send of its broadcast: the inventory and the
\* router entry are written, agent_id is not yet returned to the handler.
RegisterBegin(s, a, caps) ==
    /\ conn[s].pc = "recv"
    /\ conn[s].agent_id = NoAgent
    /\ agents' = Put(agents, a, NewAgentEntry(a, caps, s))
    /\ router_keys' = RouterRegisterAgent(router_keys, router_agents, a, caps)[1]
    /\ router_agents' = RouterRegisterAgent(router_keys, router_agents, a, caps)[2]
    /\ BroadcastAt(s, a, 1, Len(router_keys'), agents', router_keys')
    /\ UNCHANGED <<task_queue, active_tasks, completed_tasks, task_history,
                   routing_stats, ws_open, now, enqueued, dropped, failed,
                   syncVars, clientVars, dashVars, stalled>>

\* broadcast_system_status: the pending send returns (or it raised and the
\* except clause passed) and the loop asks for the next
\* agent.  The dict iterator raises RuntimeError when the inventory has grown
\* since the loop began; nothing catches it, the handler ends and the server
\* closes its stream.  After the last agent register_agent returns agent_id.
BroadcastSend(s) ==
    /\ conn[s].pc = "bcast"
    /\ ~Blocked(bcast[s].ws)
    /\ IF Len(AgentOrder) # bcast[s].n
         THEN /\ conn' = [conn EXCEPT ![s].pc = "done"]
              /\ ws_open' = [ws_open EXCEPT ![s] = FALSE]
              /\ bcast' = [bcast EXCEPT ![s] = NoBroadcast]
              /\ UNCHANGED status_sent
         ELSE IF bcast[s].i < bcast[s].n
           THEN /\ BroadcastAt(s, bcast[s].agent, bcast[s].i + 1,
                               bcast[s].n, agents, AgentOrder)
                /\ UNCHANGED ws_open
           ELSE /\ conn' = [conn EXCEPT ![s].pc = "recv",
                                        ![s].agent_id = bcast[s].agent]
                /\ bcast' = [bcast EXCEPT ![s] = NoBroadcast]
                /\ UNCHANGED <<ws_open, status_sent>>
    /\ UNCHANGED <<agents, task_queue, active_tasks, completed_tasks,
                   router_keys, router_agents, task_history, routing_stats,
                   now, enqueued, dropped, failed, syncVars, clientVars,
                   dashVars, stalled>>

\* The peer of stream s stops reading: sends on s no longer return.
Stall(s) ==
    /\ ws_open[s]
    /\ s \notin stalled
    /\ stalled' = stalled \cup {s}
    /\ UNCHANGED <<mainVars, syncVars, clientVars, dashVars, bcast, status_sent>>

BroadcastNext ==
    \/ \E s \in Streams, a \in AgentIds :
           RegisterBegin(s, a, DeclaredCaps[a])
    \/ \E s \in Streams : BroadcastSend(s)
    \/ \E s \in Streams : TaskRequest(s)
    \/ \E s \in Streams, to \in AgentIds, ty \in DelegatedTypes,
          desc \in DelegatedDescs :
           TaskDelegation(s, to, ty, desc)
    \/ \E s \in Streams : ~Blocked(conn[s].ws) /\ AssignSendDone(s)
    \/ \E s \in Streams : TransportClose(s)
    \/ \E s \in Streams : Stall(s)

\* Registration and assignment with every network send a step of its own.
BroadcastSpec == Init /\ [][BroadcastNext]_vars

\* BroadcastSpec with the event loop resuming every send that can return.
BroadcastFairSpec ==
    /\ Init /\ [][BroadcastNext]_vars
    /\ \A s \in Streams : WF_vars(BroadcastSend(s))
    /\ \A s \in Streams :
          WF_vars(~Blocked(conn[s].ws) /\ AssignSendDone(s))

\* ---------------------------------------------------------------- monitor
\* A monitor that also marks at exactly the limit.
HeartbeatStaleAtLimit(age) == age >= HeartbeatTimeout

\* if time_since_heartbeat > 60
HeartbeatStale(age) == age > HeartbeatTimeout

\* MasterCoordinator.monitor_agents: one pass over the inventory
MonitorPass ==
    /\ agents' = [a \in DOMAIN agents |->
                    IF agents[a].last_heartbeat # NoTime
                         /\ HeartbeatStale(now - agents[a].last_heartbeat)
                      THEN [agents[a] EXCEPT !.status = "unresponsive"]
                      ELSE agents[a]]
    /\ UNCHANGED <<task_queue, active_tasks, completed_tasks, router_keys,
                   router_agents, task_history, routing_stats, conn, ws_open,
                   now, enqueued, dropped, failed, otherVars>>

\* monitor_agents: await asyncio.sleep(30)
MonitorTick ==
    /\ now < MaxMonitorTicks * MonitorInterval
    /\ now' = now + MonitorInterval
    /\ UNCHANGED <<agents, task_queue, active_tasks, completed_tasks,
                   router_keys, router_agents, task_history, routing_stats,
                   conn, ws_open, enqueued, dropped, failed, otherVars>>

MonitorNext ==
    \/ \E s \in Streams, a \in AgentIds :
           AgentRegister(s, a, DeclaredCaps[a])
    \/ \E s \in Streams, a \in AgentIds, st \in HeartbeatStatuses :
           Heartbeat(s, a, st)
    \/ \E s \in Streams : TransportClose(s)
    \/ \E s \in Streams : ConnectionClosed(s)
    \/ MonitorPass
    \/ MonitorTick

\* The inventory under registrations, heartbeats, closes and the monitor, with
\* the clock moving by the monitor's interval.
MonitorSpec == Init /\ [][MonitorNext]_vars

\* ------------------------------------------------- router, chosen states
\* The state after construction with the router's inventory, history and the
\* clock set as given.
InitWith(keys, ra, hist, t) ==
    /\ agents = EmptyDict
    /\ task_queue = <<>>
    /\ active_tasks = EmptyDict
    /\ completed_tasks = <<>>
    /\ router_keys = keys
    /\ router_agents = ra
    /\ task_history = hist
    /\ routing_stats = EmptyDict
    /\ conn = [s \in Streams |-> IdleConn(NoAgent)]
    /\ ws_open = [s \in Streams |-> TRUE]
    /\ now = t
    /\ enqueued = {}
    /\ dropped = FALSE
    /\ failed = {}
    /\ shared_context = EmptyDict
    /\ context_history = <<>>
    /\ subscriptions = <<>>
    /\ sync_queue = <<>>
    /\ delivered = <<>>
    /\ got = <<>>
    /\ client = NewClient
    /\ cache = {}
    /\ events = <<>>
    /\ bcast = [s \in Streams |-> NoBroadcast]
    /\ stalled = {}
    /\ status_sent = {}
    /\ ret = NoRet
    /\ dash_queue = <<>>
    /\ dash_active = EmptyDict
    /\ dash_completed = <<>>

\* route_task takes an agent whose status is idle or whose load is below 3,
\* so a load grows to 3 and no further.
MaxLoad == LowLoadLimit

\* An agent that was routed `load` tasks since it registered.
LoadedAgent(caps, load) ==
    [NewRouterAgent(caps) EXCEPT
        !.current_load = load,
        !.status = IF load > 0 THEN "busy" ELSE "idle"]

\* Orders of the router's dict
KeyOrders == {<<>>, <<"A">>, <<"B">>, <<"A", "B">>, <<"B", "A">>}

SumLoads(keys, ra) ==
    LET RECURSIVE Sum(_)
        Sum(i) == IF i = 0 THEN 0 ELSE ra[keys[i]].current_load + Sum(i - 1)
    IN Sum(Len(keys))

\* An agent above the mean and above 2.
OverloadedAboveMean(load, sum, n) == load * n > sum /\ load > 2

\* agent['current_load'] > avg_load * 1.5 and agent['current_load'] > 2, with
\* avg_load = sum / n.  The loads are small integers, so the float product is
\* only near the load when the mean is exactly 2, where it is exact.
Overloaded(load, sum, n) == 2 * load * n > 3 * sum /\ load > 2

\* IntelligentTaskRouter.rebalance_load: the list of actions, in dict order
RebalanceLoad(keys, ra) ==
    IF keys = <<>> THEN <<>>
    ELSE LET sum == SumLoads(keys, ra)
             n == Len(keys)
             over == SelectSeq(keys, LAMBDA a :
                                  Overloaded(ra[a].current_load, sum, n))
         IN [i \in 1..Len(over) |->
               [action |-> "reduce_load", agent_id |-> over[i],
                current_load |-> ra[over[i]].current_load,
                recommended_load |-> sum \div n]]

\* router.rebalance_load()
RebalanceCall ==
    /\ ret' = <<"rebalance", RebalanceLoad(router_keys, router_agents)>>
    /\ UNCHANGED <<mainVars, syncVars, clientVars, bcastVars, dash_queue,
                   dash_active, dash_completed>>

RebalanceInit ==
    \E keys \in KeyOrders :
      \E ra \in [{keys[i] : i \in 1..Len(keys)} ->
                    {LoadedAgent(DeclaredCaps[a], l) :
                        a \in AgentIds, l \in 0..MaxLoad}] :
         /\ \A a \in DOMAIN ra : ra[a].capabilities = DeclaredCaps[a]
         /\ InitWith(keys, ra, <<>>, 0)

RebalanceNext ==
    \/ RebalanceCall
    \/ \E a \in AgentIds, task \in RouterTasks, success \in BOOLEAN,
          duration \in Durations :
           ReportCompletionCall(a, task, success, duration)

\* rebalance_load on inventories with loads 0..3, between completions.
RebalanceSpec == RebalanceInit /\ [][RebalanceNext]_vars

\* Clock readings after a completion reported at time 0: around the idle
\* limit, and around it again one day later.
ElapsedTimes == {0, IdleSeconds - 1, IdleSeconds, IdleSeconds + 1,
                 DaySeconds - 1, DaySeconds, DaySeconds + IdleSeconds,
                 DaySeconds + IdleSeconds + 1, 2 * DaySeconds - 1}

\* router._calculate_agent_score(a, task)
ScoreCall(a, task) ==
    /\ a \in DOMAIN router_agents
    /\ task.type # NoType
    /\ ret' = <<"score", a, task,
                CalculateAgentScore(router_agents, task_history, now, a,
                                    task)>>
    /\ UNCHANGED <<mainVars, syncVars, clientVars, bcastVars, dash_queue,
                   dash_active, dash_completed>>

\* One agent that registered, was routed `load` + 1 tasks and reported one of
\* them at time 0; the score is asked for at a later clock reading.
ScoreInit ==
    \E a \in AgentIds, load \in 0..(MaxLoad - 1), task \in RouterTasks,
       success \in BOOLEAN, duration \in Durations, t \in ElapsedTimes :
        LET ra == [x \in {a} |-> LoadedAgent(DeclaredCaps[a], load + 1)]
            rep == ReportTaskCompletion(ra, <<>>, 0, a, task, success,
                                        duration)
        IN InitWith(<<a>>, rep[1], rep[2], t)

ScoreNext == \E a \in AgentIds, task \in RouterTasks : ScoreCall(a, task)

\* _calculate_agent_score at chosen times after a completion.
ScoreSpec == ScoreInit /\ [][ScoreNext]_vars

\* ------------------------------------------------------- DashboardManager
\* DashSpec: tasks held by the dashboard
MaxDashTasks == 3

\* add_task's argument has no 'id' key
NoId == <<"none", 0>>

\* Ids the submitters choose themselves; add_task's own are <<"task", n>>.
GivenIds == {<<"ext", 0>>}

\* f"task_{len(self.completed_tasks) + len(self.task_queue)}"
DashNewId == <<"task", Len(dash_completed) + Len(dash_queue)>>

\* Ids of the tasks the dashboard holds
DashIds ==
    {dash_queue[i] : i \in 1..Len(dash_queue)}
        \cup DOMAIN dash_active
        \cup {dash_completed[i] : i \in 1..Len(dash_completed)}

\* list.remove(first t with t['id'] == id)
RemoveFirst(q, id) ==
    LET i == CHOOSE j \in 1..Len(q) :
                 q[j] = id /\ \A k \in 1..(j - 1) : q[k] # id
    IN SubSeq(q, 1, i - 1) \o SubSeq(q, i + 1, Len(q))

InQueue(id) == \E i \in 1..Len(dash_queue) : dash_queue[i] = id

\* DashboardManager.add_task
DashAddTask(given) ==
    /\ Len(dash_queue) + Cardinality(DOMAIN dash_active) + Len(dash_completed)
          < MaxDashTasks
    /\ dash_queue' = Append(dash_queue,
                            IF given = NoId THEN DashNewId ELSE given)
    /\ UNCHANGED <<mainVars, syncVars, clientVars, bcastVars, ret,
                   dash_active, dash_completed>>

\* DashboardManager.start_task
DashStartTask(id, a) ==
    /\ IF InQueue(id)
         THEN /\ dash_queue' = RemoveFirst(dash_queue, id)
              /\ dash_active' = Put(dash_active, id, a)
         ELSE UNCHANGED <<dash_queue, dash_active>>
    /\ UNCHANGED <<mainVars, syncVars, clientVars, bcastVars, ret,
                   dash_completed>>

\* DashboardManager.complete_task
DashCompleteTask(id) ==
    /\ IF id \in DOMAIN dash_active
         THEN /\ dash_active' = Del(dash_active, id)
              /\ dash_completed' = Append(dash_completed, id)
              /\ UNCHANGED dash_queue
         ELSE IF InQueue(id)
           THEN /\ dash_queue' = RemoveFirst(dash_queue, id)
                /\ dash_completed' = Append(dash_completed, id)
                /\ UNCHANGED dash_active
           ELSE UNCHANGED <<dash_queue, dash_active, dash_completed>>
    /\ UNCHANGED <<mainVars, syncVars, clientVars, bcastVars, ret>>

\* Ids a report may name
ReportedIds == GivenIds \cup {<<"task", n>> : n \in 0..(MaxDashTasks - 1)}

DashNext ==
    \/ \E given \in GivenIds \cup {NoId} : DashAddTask(given)
    \/ \E id \in ReportedIds, a \in AgentIds : DashStartTask(id, a)
    \/ \E id \in ReportedIds : DashCompleteTask(id)

DashSpec == Init /\ [][DashNext]_vars

\* ------------------------------------------------------------ SyncManager
MaxUpdates == 3
MaxGets == 1

ContextKeys == {"k1", "k2"}
\* Values: two strings, the tuple (1, 2) and the list [1, 2]
Values == {"v1", "v2", "t12", "l12"}
NoChecksum == <<>>
\* What the update_context calls of SyncSpec carry.
UpdateValues == {"v1", "v2"}
SubscribedKeys == {{"k1"}, {"k2"}}

\* json.dumps(value, sort_keys=True, default=str): a tuple is written as a list
Serialize(v) == IF v \in {"t12", "l12"} THEN "[1, 2]" ELSE v

\* SyncManager._calculate_checksum: sha256 of the serialization
CalculateChecksum(v) == <<"sha256", Serialize(v)>>

\* SyncManager._verify_checksum
VerifyChecksum(context) ==
    IF context.checksum = NoChecksum
      THEN TRUE
      ELSE CalculateChecksum(context.value) = context.checksum

\* SyncManager.get_context: <<>> is None, <<entry>> the entry returned
GetContext(sc, k) ==
    IF k \notin DOMAIN sc THEN <<>>
    ELSE IF ~VerifyChecksum(sc[k]) THEN <<>>
    ELSE <<sc[k]>>

\* SyncManager._has_conflict
HasConflict(existing, new_value, t) ==
    (t - existing.timestamp) < 1 /\ existing.value # new_value

\* A resolution that keeps the value already stored.
ResolveConflictKeepFirst(existing, new_value) == existing.value

\* SyncManager._resolve_conflict (last_write_wins)
ResolveConflict(existing, new_value) == new_value

\* A version that starts again at 1.
GetNextVersionReset(sc, k) == 1

\* SyncManager._get_next_version
GetNextVersion(sc, k) == IF k \in DOMAIN sc THEN sc[k].version + 1 ELSE 1

\* A notification that also goes to the updater.
ShouldNotifyAll(sub, k, updater) == k \in sub.keys

\* if context_key in subscribed_keys and agent_id != updater_agent
ShouldNotify(sub, k, updater) == k \in sub.keys /\ sub.agent # updater

\* SyncManager._notify_subscribers: the notifications put, in dict order
NotifySubscribers(subs, sc, k, updater) ==
    LET RECURSIVE Puts(_)
        Puts(i) ==
            IF i > Len(subs) THEN <<>>
            ELSE (IF ShouldNotify(subs[i], k, updater)
                    THEN <<[target_agent |-> subs[i].agent,
                            context_key |-> k, value |-> sc[k],
                            updated_by |-> updater]>>
                    ELSE <<>>) \o Puts(i + 1)
    IN Puts(1)

\* SyncManager.update_context
UpdateContext(agent, k, v) ==
    /\ Len(context_history) < MaxUpdates
    /\ LET value == IF k \in DOMAIN shared_context
                         /\ HasConflict(shared_context[k], v, now)
                      THEN ResolveConflict(shared_context[k], v)
                      ELSE v
           entry == [value |-> value, updated_by |-> agent,
                     timestamp |-> now,
                     version |-> GetNextVersion(shared_context, k),
                     checksum |-> CalculateChecksum(value)]
           sc == Put(shared_context, k, entry)
       IN /\ shared_context' = sc
          /\ context_history' = Append(context_history,
                 [key |-> k, value |-> value, agent |-> agent,
                  timestamp |-> now])
          /\ sync_queue' = sync_queue \o NotifySubscribers(subscriptions, sc,
                                                          k, agent)
    /\ UNCHANGED <<mainVars, clientVars, bcastVars, dashVars, subscriptions, delivered, got>>

\* SyncManager.subscribe
Subscribe(a, ks) ==
    /\ subscriptions' =
         IF \E i \in 1..Len(subscriptions) : subscriptions[i].agent = a
           THEN [i \in 1..Len(subscriptions) |->
                   IF subscriptions[i].agent = a
                     THEN [agent |-> a, keys |-> subscriptions[i].keys \cup ks]
                     ELSE subscriptions[i]]
           ELSE Append(subscriptions, [agent |-> a, keys |-> ks])
    /\ UNCHANGED <<mainVars, clientVars, bcastVars, dashVars, shared_context, context_history, sync_queue,
                   delivered, got>>

\* SyncManager.start_sync_worker: one turn of the loop
SyncWorker ==
    /\ sync_queue # <<>>
    /\ delivered' = Append(delivered, Head(sync_queue))
    /\ sync_queue' = Tail(sync_queue)
    /\ UNCHANGED <<mainVars, clientVars, bcastVars, dashVars, shared_context, context_history, subscriptions,
                   got>>

\* A call of get_context(k); the key asked and the result are kept in got.
GetContextCall(k) ==
    /\ Len(got) < MaxGets
    /\ got' = Append(got, [key |-> k, result |-> GetContext(shared_context, k)])
    /\ UNCHANGED <<mainVars, clientVars, bcastVars, dashVars, shared_context, context_history, subscriptions,
                   sync_queue, delivered>>

SyncNext ==
    \/ \E a \in AgentIds, k \in ContextKeys, v \in UpdateValues :
           UpdateContext(a, k, v)
    \/ \E a \in AgentIds, ks \in SubscribedKeys : Subscribe(a, ks)
    \/ SyncWorker
    \/ Tick

\* The SyncManager driven through its public methods.
SyncSpec == Init /\ [][SyncNext]_vars

\* The entries _verify_checksum can be given: any value with the checksum of
\* any value, or with none.
Entries ==
    [value : Values, updated_by : AgentIds, timestamp : {0}, version : {1, 2},
     checksum : {NoChecksum} \cup {CalculateChecksum(v) : v \in Values}]

\* get_context as a function of the stored entry.
GetInit ==
    /\ agents = EmptyDict
    /\ task_queue = <<>>
    /\ active_tasks = EmptyDict
    /\ completed_tasks = <<>>
    /\ router_keys = <<>>
    /\ router_agents = EmptyDict
    /\ task_history = <<>>
    /\ routing_stats = EmptyDict
    /\ conn = [s \in Streams |-> IdleConn(NoAgent)]
    /\ ws_open = [s \in Streams |-> TRUE]
    /\ now = 0
    /\ enqueued = {}
    /\ dropped = FALSE
    /\ failed = {}
    /\ \E e \in Entries : shared_context = [k \in {"k1"} |-> e]
    /\ context_history = <<>>
    /\ subscriptions = <<>>
    /\ sync_queue = <<>>
    /\ delivered = <<>>
    /\ got = <<>>
    /\ client = NewClient
    /\ cache = {}
    /\ events = <<>>
    /\ bcast = [s \in Streams |-> NoBroadcast]
    /\ stalled = {}
    /\ status_sent = {}
    /\ ret = NoRet
    /\ dash_queue = <<>>
    /\ dash_active = EmptyDict
    /\ dash_completed = <<>>

GetNext == \E k \in ContextKeys : GetContextCall(k)

GetSpec == GetInit /\ [][GetNext]_vars

\* ------------------------------------------------------------ agent client
\* A client that shows the new connection to its workers before it has
\* registered on it.
AtConnectPublished(c) ==
    [c EXCEPT !.pc = "register", !.ws = "open", !.frames = <<>>]

\* websockets.connect has succeeded; self.ws_connection is assigned when the
\* connection manager resumes, which is when it goes on to register.
AtConnect(c) == [c EXCEPT !.pc = "register"]

\* _connection_manager: await self._connect_to_coordination_server()
Connect(ok) ==
    /\ client.pc = "connect"
    /\ client.attempts < MaxAttempts
    /\ client' = IF ok
                   THEN [AtConnect(client) EXCEPT !.fails = 0,
                                                  !.attempts = @ + 1]
                   ELSE [client EXCEPT !.pc = "sleep", !.ws = "none",
                                       !.fails = @ + 1, !.attempts = @ + 1]
    /\ UNCHANGED <<mainVars, syncVars, bcastVars, dashVars, cache, events>>

\* asyncio.create_task for the task processor, the heartbeat worker, the
\* auto-request worker and the message receiver
StartWorkers(w) ==
    [processor |-> w.processor + 1, heartbeat |-> w.heartbeat + 1,
     auto_request |-> w.auto_request + 1, receiver |-> w.receiver + 1]

\* _connection_manager: ws_connection is assigned and _register_agent sends
\* AGENT_REGISTER; then the delay is reset, the workers are started, status
\* is set to idle and TASK_REQUEST is sent.  The send of AGENT_REGISTER raises
\* when the stream is closed.
Register(ok) ==
    /\ client.pc = "register"
    /\ client' = IF ok
                   THEN [client EXCEPT
                            !.pc = "run", !.ws = "open", !.status = "idle",
                            !.reconnect_delay = InitialDelay,
                            !.workers = StartWorkers(@),
                            !.frames = IF AutoRequestTasks
                                         THEN <<"AGENT_REGISTER",
                                                "TASK_REQUEST">>
                                         ELSE <<"AGENT_REGISTER">>]
                   ELSE [client EXCEPT !.pc = "sleep", !.ws = "none",
                                       !.frames = <<>>, !.fails = @ + 1]
    /\ UNCHANGED <<mainVars, syncVars, bcastVars, dashVars, cache, events>>

\* _connection_manager: asyncio.gather raises (the message receiver saw the
\* stream close and raised).  gather does not cancel the other tasks: the
\* task processor, the heartbeat worker and the auto-request worker go on.
SessionEnds ==
    /\ client.pc = "run"
    /\ client' = [client EXCEPT !.pc = "sleep", !.ws = "none",
                                !.frames = <<>>, !.fails = @ + 1,
                                !.workers.receiver = @ - 1]
    /\ UNCHANGED <<mainVars, syncVars, bcastVars, dashVars, cache, events>>

\* min(self.reconnect_delay * 2, 60)
NextDelay(d) == IF d * 2 <= MaxDelay THEN d * 2 ELSE MaxDelay

\* _connection_manager: sleep(reconnect_delay), then the delay is doubled
Backoff ==
    /\ client.pc = "sleep"
    /\ client' = [client EXCEPT !.pc = "connect",
                                !.reconnect_delay = NextDelay(@)]
    /\ UNCHANGED <<mainVars, syncVars, bcastVars, dashVars, cache, events>>

\* _message_receiver: a TASK_ASSIGNMENT goes to the agent's task_queue
ReceiveAssignment(task) ==
    /\ client.pc = "run"
    /\ client.received < MaxClientTasks
    /\ client' = [client EXCEPT !.task_queue = Append(@, task),
                                !.received = @ + 1]
    /\ UNCHANGED <<mainVars, syncVars, bcastVars, dashVars, cache, events>>

\* _heartbeat_worker: one turn of any of the heartbeat workers alive
HeartbeatTick ==
    /\ client.workers.heartbeat > 0
    /\ client.ws = "open"
    /\ Len(client.frames) < MaxFrames
    /\ client' = [client EXCEPT !.frames = Append(@, "HEARTBEAT")]
    /\ UNCHANGED <<mainVars, syncVars, bcastVars, dashVars, cache, events>>

\* _auto_request_worker: one turn of any of the auto-request workers alive
AutoRequestTick ==
    /\ AutoRequestTasks
    /\ client.workers.auto_request > 0
    /\ client.status = "idle"
    /\ client.task_queue = <<>>
    /\ client.ws = "open"
    /\ Len(client.frames) < MaxFrames
    /\ client' = [client EXCEPT !.frames = Append(@, "TASK_REQUEST")]
    /\ UNCHANGED <<mainVars, syncVars, bcastVars, dashVars, cache, events>>

\* TASK_COMPLETE, status idle and TASK_REQUEST at the end of _execute_task
AfterTaskDone(c) ==
    [c EXCEPT !.status = "idle",
              !.frames = @ \o (IF AutoRequestTasks
                                 THEN <<"TASK_COMPLETE", "TASK_REQUEST">>
                                 ELSE <<"TASK_COMPLETE">>)]

\* json.dumps(context, sort_keys=True) hashed: one hash per context
ContextHash(context) == context[1]

\* IntelligentCache._generate_key; a context is <<>> (None) or <<task>>
GenerateKey(key, context) ==
    IF context = <<>> THEN <<key>> ELSE <<key, ContextHash(context)>>

\* IntelligentCache.get: <<>> is None, <<value>> the value read
CacheGet(c, key, context) ==
    LET hits == {e \in c : e.key = GenerateKey(key, context)}
    IN IF hits = {} THEN <<>> ELSE <<(CHOOSE e \in hits : TRUE).value>>

\* IntelligentCache.set (INSERT OR REPLACE)
CacheSet(c, key, value, context) ==
    {e \in c : e.key # GenerateKey(key, context)}
        \cup {[key |-> GenerateKey(key, context), value |-> value]}

\* f"task:{task['type']}:{hash(str(task.get('description')))}"
TaskCacheKey(task) == <<"task", task.type, task.description>>

\* _route_and_execute: what the executor returns for the task
ExecutorResult(task) == <<"completed", task.type, task.description>>

\* An error in a task that ends the processor and the session.
AfterTaskErrorCrash(c) ==
    [c EXCEPT !.processor = "stopped", !.pc = "sleep", !.ws = "none"]

\* _task_processor: except Exception: log, reporter.report_error; the loop
\* goes on (status is left as _execute_task set it)
AfterTaskError(c) == c

\* _task_processor: one task pulled and given to _execute_task, which returns
\* or raises in the executor.
ExecuteTask(raises) ==
    /\ client.processor = "running"
    /\ client.workers.processor > 0
    /\ client.ws = "open"
    /\ client.task_queue # <<>>
    /\ LET task == Head(client.task_queue)
           key == TaskCacheKey(task)
           cached == CacheGet(cache, key, <<>>)
           pulled == [client EXCEPT !.task_queue = Tail(@),
                                    !.status = "busy"]
       IN IF cached # <<>>
            THEN /\ ~raises
                 /\ events' = Append(events, [kind |-> "cached", task |-> task,
                                              result |-> cached[1],
                                              sent |-> TRUE])
                 /\ client' = AfterTaskDone(pulled)
                 /\ UNCHANGED cache
            ELSE IF raises
              THEN /\ events' = Append(events, [kind |-> "error",
                                                task |-> task,
                                                result |-> <<>>,
                                                sent |-> FALSE])
                   /\ client' = AfterTaskError(pulled)
                   /\ UNCHANGED cache
              ELSE /\ events' = Append(events, [kind |-> "executed",
                                                task |-> task,
                                                result |-> ExecutorResult(task),
                                                sent |-> TRUE])
                   /\ cache' = CacheSet(cache, key, ExecutorResult(task),
                                        <<task>>)
                   /\ client' = AfterTaskDone(pulled)
    /\ UNCHANGED <<mainVars, syncVars, bcastVars, dashVars>>

ClientNext ==
    \/ \E ok \in BOOLEAN : Connect(ok)
    \/ \E ok \in BOOLEAN : Register(ok)
    \/ SessionEnds
    \/ Backoff
    \/ \E task \in ClientTasks : ReceiveAssignment(task)
    \/ \E raises \in BOOLEAN : ExecuteTask(raises)
    \/ HeartbeatTick
    \/ AutoRequestTick

\* One agent process.
ClientSpec == Init /\ [][ClientNext]_vars

\* One agent process whose task processor and auto-request worker get to run.
ClientFairSpec ==
    /\ Init /\ [][ClientNext]_vars
    /\ WF_vars(\E raises \in BOOLEAN : ExecuteTask(raises))
    /\ WF_vars(AutoRequestTick)

\* ------------------------------------------------------------------ claims
QueueCount(id) ==
    Cardinality({i \in 1..Len(task_queue) : task_queue[i].id = id})

ActiveCount(id) == IF id \in DOMAIN active_tasks THEN 1 ELSE 0

CompletedCount(id) ==
    Cardinality({i \in 1..Len(completed_tasks) : completed_tasks[i].task.id = id})

TaskIds == 0..MaxTasks

\* C1 Unique-assignment: every task id is in at most one of the queue and the
\* active-map, and never twice in the queue.
UniqueAssignment ==
    \A id \in TaskIds : QueueCount(id) + ActiveCount(id) <= 1

\* C2 Task conservation: at any instant, every task that was enqueued is in
\* exactly one of the queue, the active-map and the completed log.
TaskConservation ==
    \A id \in enqueued :
        QueueCount(id) + ActiveCount(id) + CompletedCount(id) = 1

\* The spec's eligibility (connected, idle or lightly loaded, capable).
SpecEligible(a, task) ==
    /\ a \in DOMAIN agents
    /\ agents[a].status # "disconnected"
    /\ a \in DOMAIN router_agents
    /\ IsEligible(router_agents, a, task)

\* C3 Requeue conservation: an assignment attempt (TASK_REQUEST) on a front
\* task for which no registered agent is eligible leaves the task in the queue
\* exactly once, the queue length unchanged, no TASK_ASSIGNMENT under way for
\* it and the active-map without an entry for it.
RequeueConservation ==
    [][\A s \in Streams :
          (/\ task_queue # <<>>
           /\ \A a \in AgentIds : ~SpecEligible(a, Head(task_queue))
           /\ TaskRequest(s))
          => (/\ Len(task_queue') = Len(task_queue)
              /\ Cardinality({i \in 1..Len(task_queue') :
                     task_queue'[i] = Head(task_queue)})
                   = Cardinality({i \in 1..Len(task_queue) :
                         task_queue[i] = Head(task_queue)})
              /\ conn'[s].pc # "send"
              /\ active_tasks' = active_tasks)]_vars

Counters(agent) ==
    <<agent.total_tasks, agent.successful_tasks, agent.failed_tasks,
      agent.avg_duration, agent.specializations>>

\* C4 Register idempotence (counters): registering a known agent_id keeps its
\* total_tasks, successful_tasks, failed_tasks, avg_duration, specializations.
RegisterPreservesCounters ==
    [][\A a \in AgentIds, caps \in CapSets :
          (a \in DOMAIN router_agents /\ RegisterAgentCall(a, caps))
          => Counters(router_agents'[a]) = Counters(router_agents[a])]_vars

KeyCount(keys, a) == Cardinality({i \in 1..Len(keys) : keys[i] = a})

\* C5 Register idempotence (inventory): after each AGENT_REGISTER for an
\* agent_id, first or repeated, the inventory and the router hold exactly one
\* entry for it, its session handle is the registering stream, status idle.
RegisterInventory ==
    [][\A s \in Streams, a \in AgentIds :
          AgentRegister(s, a, DeclaredCaps[a])
          => (/\ a \in DOMAIN agents'
              /\ agents'[a].websocket = s
              /\ agents'[a].status = "idle"
              /\ a \in DOMAIN router_agents'
              /\ KeyCount(router_keys', a) = 1
              /\ \A b \in DOMAIN agents' : KeyCount(router_keys', b) = 1)]_vars

\* An agent registered on both streams, s2 last.
RegisteredTwice ==
    \E a \in AgentIds :
        /\ conn["s1"].agent_id = a
        /\ conn["s2"].agent_id = a
        /\ a \in DOMAIN agents
        /\ agents[a].websocket = "s2"
        /\ agents[a].status = "idle"
        /\ KeyCount(router_keys, a) = 1

\* C6 Counter consistency: for every agent of the router,
\* successful_tasks + failed_tasks <= total_tasks and current_load >= 0.
CounterConsistency ==
    \A a \in DOMAIN router_agents :
        /\ router_agents[a].successful_tasks + router_agents[a].failed_tasks
               <= router_agents[a].total_tasks
        /\ router_agents[a].current_load >= 0

\* A completion was reported for an agent that had no load left.
ReportedAtZeroLoad ==
    \E a \in DOMAIN router_agents :
        /\ router_agents[a].failed_tasks >= 1
        /\ router_agents[a].current_load = 0

NewDecisions ==
    {ty \in DOMAIN routing_stats' :
        Len(routing_stats'[ty])
          > (IF ty \in DOMAIN routing_stats THEN Len(routing_stats[ty]) ELSE 0)}

\* C7 Eligibility: the agent route returns is connected, idle or with
\* current_load < 3, and declares the task's type or general.
RouteEligibility ==
    [][\A ty \in NewDecisions :
          LET d == routing_stats'[ty][Len(routing_stats'[ty])]
          IN SpecEligible(d.selected_agent, d.task)]_vars

\* C8 route does not mutate state on failure: when route_task raises, every
\* agent's status and current_load and the routing log are as before the call.
RouteFailureNoMutation ==
    [][\A task \in RouterTasks :
          (/\ RouteTaskCall(task)
           /\ RouteTask(router_keys, router_agents, task_history,
                        routing_stats, now, task).ret = "raise")
          => (/\ routing_stats' = routing_stats
              /\ \A a \in DOMAIN router_agents :
                    /\ router_agents'[a].status = router_agents[a].status
                    /\ router_agents'[a].current_load
                           = router_agents[a].current_load)]_vars

\* The winner the spec's tie-break names: top score, then lowest
\* current_load, then oldest last_task_time, then smallest agent_id.
TieBreakWinner(task) ==
    LET elig == FindEligibleAgents(router_keys, router_agents, task)
        E == {elig[i] : i \in 1..Len(elig)}
        sc(a) == CalculateAgentScore(router_agents, task_history, now, a, task)
        Before(a, b) ==
            \/ sc(a) > sc(b)
            \/ /\ sc(a) = sc(b)
               /\ \/ router_agents[a].current_load < router_agents[b].current_load
                  \/ /\ router_agents[a].current_load
                            = router_agents[b].current_load
                     /\ \/ router_agents[a].last_task_time
                                < router_agents[b].last_task_time
                        \/ /\ router_agents[a].last_task_time
                                  = router_agents[b].last_task_time
                           /\ IdRank(a) < IdRank(b)
    IN CHOOSE a \in E : \A b \in E \ {a} : Before(a, b)

\* C9 Tie-break: among eligible agents of equal top score route selects the
\* lowest current_load, then the oldest last_task_time, then the smallest
\* agent_id, whatever the registration order.
TieBreak ==
    [][\A task \in RouterTasks :
          LET r == RouteTask(router_keys, router_agents, task_history,
                             routing_stats, now, task)
          IN (RouteTaskCall(task) /\ r.ret # "raise")
             => r.ret = TieBreakWinner(task)]_vars

\* C10 TASK_COMPLETE for an id of the active-map removes the entry, appends
\* exactly one record to the completed log, adds 1 to total_tasks and to
\* successful_tasks of the reporting agent and sets its status to idle.
CompletionEffects ==
    [][\A s \in Streams, tid \in TaskIds, a \in AgentIds :
          (tid \in DOMAIN active_tasks /\ TaskComplete(s, tid, a))
          => (/\ tid \notin DOMAIN active_tasks'
              /\ Len(completed_tasks') = Len(completed_tasks) + 1
              /\ SubSeq(completed_tasks', 1, Len(completed_tasks))
                     = completed_tasks
              /\ completed_tasks'[Len(completed_tasks')].task.id = tid
              /\ a \in DOMAIN router_agents =>
                    /\ router_agents'[a].total_tasks
                           = router_agents[a].total_tasks + 1
                    /\ router_agents'[a].successful_tasks
                           = router_agents[a].successful_tasks + 1
                    /\ router_agents'[a].failed_tasks
                           = router_agents[a].failed_tasks
              /\ a \in DOMAIN agents => agents'[a].status = "idle")]_vars

\* A task went from the active-map to the completed log and was credited.
CompletionRecorded ==
    /\ Len(completed_tasks) >= 1
    /\ \E a \in DOMAIN router_agents :
          /\ router_agents[a].total_tasks >= 1
          /\ router_agents[a].successful_tasks >= 1
          /\ agents[a].status = "idle"

\* C11 A TASK_COMPLETE frame whose task id is not in the active-map (unknown,
\* or already completed) is dropped: queue, active-map, completed log, router
\* counters and history, and agent statuses are unchanged.
UnknownCompletionDropped ==
    [][\A s \in Streams, tid \in TaskIds, a \in AgentIds :
          (tid \notin DOMAIN active_tasks /\ TaskComplete(s, tid, a))
          => (/\ task_queue' = task_queue
              /\ active_tasks' = active_tasks
              /\ completed_tasks' = completed_tasks
              /\ router_agents' = router_agents
              /\ task_history' = task_history
              /\ agents' = agents)]_vars

\* A TASK_COMPLETE frame was dropped; the log holds the one record of the one
\* completion that was accepted and no agent has more than one counted task.
CompletionDropped ==
    /\ dropped
    /\ Len(completed_tasks) = 1
    /\ DOMAIN active_tasks = {}
    /\ \E a \in DOMAIN router_agents : router_agents[a].total_tasks = 1
    /\ \A a \in DOMAIN router_agents : router_agents[a].total_tasks <= 1
    /\ \E a \in DOMAIN agents : agents[a].status = "busy"

\* C12 Failure transition: when an agent's execution of an assigned task
\* fails, the coordinator eventually takes the task out of the active-map,
\* counts a failed task for an agent in the router and has a record of the
\* task in the completed log.
FailureTransition ==
    \A tid \in TaskIds :
        (tid \in failed /\ tid \in DOMAIN active_tasks)
          ~> (/\ tid \notin DOMAIN active_tasks
              /\ CompletedCount(tid) >= 1
              /\ \E a \in DOMAIN router_agents :
                     router_agents[a].failed_tasks >= 1)

IdsInUse ==
    {task_queue[i].id : i \in 1..Len(task_queue)}
        \cup DOMAIN active_tasks
        \cup {completed_tasks[i].task.id : i \in 1..Len(completed_tasks)}

\* C13 Delegation ids are fresh: the id handle_delegation gives the new task
\* is the id of no task in the queue, the active-map or the completed log.
DelegationIdsFresh ==
    [][\A s \in Streams, to \in AgentIds, ty \in DelegatedTypes,
          desc \in DelegatedDescs :
          TaskDelegation(s, to, ty, desc) => DelegationId \notin IdsInUse]_vars

\* C14 Delegation dispatch: a TASK_DELEGATION whose `to` agent is registered
\* and idle sends the new task, and no task that was waiting, to the `to`
\* agent, and the router is not consulted.
DelegationDispatch ==
    [][\A s \in Streams, to \in AgentIds, ty \in DelegatedTypes,
          desc \in DelegatedDescs :
          (/\ to \in DOMAIN agents
           /\ agents[to].status = "idle"
           /\ TaskDelegation(s, to, ty, desc))
          => (/\ conn'[s].pc = "send"
              /\ conn'[s].task = [id |-> DelegationId, type |-> ty,
                                  priority |-> "normal", description |-> desc]
              /\ conn'[s].best = to
              /\ task_queue' = task_queue
              /\ router_agents' = router_agents
              /\ routing_stats' = routing_stats)]_vars

\* The receive loop of stream s ends.
StreamEnds(s) == ConnectionClosed(s) \/ LoopEnds(s) \/ MalformedFrame(s)

\* C15 On stream close, however the receive loop ends, the agent registered
\* on the stream is marked disconnected and a SYSTEM_STATUS_UPDATE broadcast
\* is emitted.
CloseMarksDisconnected ==
    [][\A s \in Streams :
          (conn[s].agent_id # NoAgent /\ StreamEnds(s))
          => (/\ agents'[conn[s].agent_id].status = "disconnected"
              /\ StatusBroadcast(s))]_vars

\* C16 A frame that fails to decode is dropped: the receive loop of the
\* stream keeps running, the stream stays open and no agent entry changes.
MalformedFrameDropped ==
    [][\A s \in Streams :
          MalformedFrame(s)
          => (/\ conn'[s].pc = "recv"
              /\ ws_open'[s]
              /\ agents' = agents)]_vars

\* C17 Session handle: every agent of the inventory has a session handle if
\* and only if its status is not disconnected.
SessionHandleInvariant ==
    \A a \in DOMAIN agents :
        ("websocket" \in DOMAIN agents[a]) <=> (agents[a].status # "disconnected")

\* C18 Busy implies loaded: an agent whose status is busy, in the router or
\* in the coordinator's inventory, has current_load >= 1 in the router.
BusyImpliesLoaded ==
    \A a \in DOMAIN router_agents :
        /\ router_agents[a].status = "busy"
               => router_agents[a].current_load >= 1
        /\ (a \in DOMAIN agents /\ agents[a].status = "busy")
               => router_agents[a].current_load >= 1

ActiveOf(a) == {tid \in DOMAIN active_tasks : active_tasks[tid].agent = a}

\* C19 Load bound: for every agent, current_load and the number of active-map
\* entries assigned to it are at most the max_concurrent_tasks it declared.
LoadBound ==
    \A a \in DOMAIN agents :
        /\ router_agents[a].current_load <= agents[a].max_concurrent_tasks
        /\ Cardinality(ActiveOf(a)) <= agents[a].max_concurrent_tasks

\* C20 Completion update: report_task_completion for a known agent adds 1 to
\* total_tasks and to exactly one of successful_tasks (success) and
\* failed_tasks (failure), sets current_load to max(0, current_load - 1) and
\* the status to idle if and only if the new current_load is 0; the
\* specialization of the task's type gets total + 1, successful + 1 on
\* success and success_rate = successful / total.
CompletionUpdate ==
    [][\A a \in AgentIds, task \in RouterTasks, success \in BOOLEAN,
          duration \in Durations :
          (a \in DOMAIN router_agents
           /\ ReportCompletionCall(a, task, success, duration))
          => LET old == router_agents[a]
                 new == router_agents'[a]
                 ty == IF task.type = NoType THEN "general" ELSE task.type
                 had == ty \in DOMAIN old.specializations
                 st == IF had THEN old.specializations[ty].total ELSE 0
                 ss == IF had THEN old.specializations[ty].successful ELSE 0
             IN /\ new.total_tasks = old.total_tasks + 1
                /\ new.successful_tasks
                       = old.successful_tasks + (IF success THEN 1 ELSE 0)
                /\ new.failed_tasks
                       = old.failed_tasks + (IF success THEN 0 ELSE 1)
                /\ new.current_load
                       = (IF old.current_load >= 1 THEN old.current_load - 1
                          ELSE 0)
                /\ (new.status = "idle") <=> (new.current_load = 0)
                /\ ty \in DOMAIN new.specializations
                /\ new.specializations[ty].total = st + 1
                /\ new.specializations[ty].successful
                       = ss + (IF success THEN 1 ELSE 0)
                /\ new.specializations[ty].success_rate
                       = (new.specializations[ty].successful * 1000)
                             \div new.specializations[ty].total]_vars

\* A failed completion was reported for an agent that keeps one more task:
\* it stays busy and its specialization has success_rate 0.
ReportedWhileLoaded ==
    \E a \in DOMAIN router_agents :
        /\ LogLen(routing_stats) = 2
        /\ Len(task_history) = 1
        /\ task_history[1].agent_id = a
        /\ ~task_history[1].success
        /\ router_agents[a].total_tasks = 1
        /\ router_agents[a].failed_tasks = 1
        /\ router_agents[a].current_load = 1
        /\ router_agents[a].status = "busy"
        /\ \E ty \in DOMAIN router_agents[a].specializations :
               router_agents[a].specializations[ty].success_rate = 0

\* C21 Version monotonicity: the first update of a key stores version 1 and
\* every later update of it the previous version plus 1; the entries of the
\* other keys keep theirs.
VersionMonotonic ==
    [][\A a \in AgentIds, k \in ContextKeys, v \in UpdateValues :
          UpdateContext(a, k, v)
          => (/\ shared_context'[k].version
                   = (IF k \in DOMAIN shared_context
                        THEN shared_context[k].version + 1 ELSE 1)
              /\ \A j \in DOMAIN shared_context \ {k} :
                    shared_context'[j] = shared_context[j])]_vars

\* k1 was updated twice, by two agents, with an update of k2 in between.
VersionsInterleaved ==
    /\ DOMAIN shared_context = ContextKeys
    /\ shared_context["k1"].version = 2
    /\ shared_context["k2"].version = 1
    /\ context_history[1].key = "k1"
    /\ context_history[2].key = "k2"
    /\ context_history[3].key = "k1"
    /\ context_history[1].agent # context_history[3].agent

RoundTripLastWriteWins ==
    [][\A a \in AgentIds, k \in ContextKeys, v \in UpdateValues :
          UpdateContext(a, k, v)
          => LET r == GetContext(shared_context', k)
             IN /\ r # <<>>
                /\ r[1].value = v
                /\ r[1].updated_by = a
                /\ k \in DOMAIN shared_context
                      => r[1].version = shared_context[k].version + 1]_vars

\* Two conflicting updates of a key, v1 then v2 within the same second, left
\* value v2 at version 2.
ConflictResolved ==
    /\ Len(context_history) = 2
    /\ context_history[1].key = "k1"
    /\ context_history[2].key = "k1"
    /\ context_history[1].value = "v1"
    /\ context_history[2].value = "v2"
    /\ context_history[1].timestamp = context_history[2].timestamp
    /\ GetContext(shared_context, "k1") # <<>>
    /\ GetContext(shared_context, "k1")[1].value = "v2"
    /\ GetContext(shared_context, "k1")[1].version = 2

Subscribed(a, k) ==
    \E i \in 1..Len(subscriptions) :
        subscriptions[i].agent = a /\ k \in subscriptions[i].keys

\* The place in context_history of the update a notification tells of.
AcceptIndex(n) ==
    CHOOSE i \in 1..Len(context_history) :
        /\ context_history[i].key = n.context_key
        /\ Cardinality({j \in 1..i :
               context_history[j].key = n.context_key}) = n.value.version

\* C24 Context notifications: an update of key k by agent u puts exactly one
\* notification for each agent other than u that is subscribed to k, none for
\* u and none for the others; notifications leave sync_queue in the order in
\* which their updates were accepted.
ContextNotifications ==
    /\ [][\A u \in AgentIds, k \in ContextKeys, v \in UpdateValues :
            UpdateContext(u, k, v)
            => LET n == Len(sync_queue)
                   added == SubSeq(sync_queue', n + 1, Len(sync_queue'))
               IN /\ SubSeq(sync_queue', 1, n) = sync_queue
                  /\ \A i \in 1..Len(added) :
                        /\ added[i].context_key = k
                        /\ added[i].updated_by = u
                        /\ added[i].value = shared_context'[k]
                  /\ \A a \in AgentIds :
                        Cardinality({i \in 1..Len(added) :
                                        added[i].target_agent = a})
                          = (IF a # u /\ Subscribed(a, k) THEN 1 ELSE 0)]_vars
    /\ [](LET all == delivered \o sync_queue
          IN \A i \in 1..Len(all), j \in 1..Len(all) :
                i < j => AcceptIndex(all[i]) <= AcceptIndex(all[j]))

\* Both agents subscribed to k1; two updates of it by different agents each
\* notified the other one, and the worker took the first notification first.
NotifiedInOrder ==
    /\ Len(delivered) = 2
    /\ delivered[1].value.version = 1
    /\ delivered[2].value.version = 2
    /\ delivered[1].context_key = "k1"
    /\ delivered[2].context_key = "k1"
    /\ delivered[1].target_agent # delivered[1].updated_by
    /\ delivered[1].target_agent = delivered[2].updated_by
    /\ delivered[2].target_agent = delivered[1].updated_by

\* The delay of the n-th failure in a row: 5, 10, 20, 40, then 60.
ExpectedDelay(n) ==
    IF InitialDelay * 2 ^ (n - 1) <= MaxDelay
      THEN InitialDelay * 2 ^ (n - 1) ELSE MaxDelay

\* C25 Reconnect backoff: the delay waited before a reconnect attempt is 5 s
\* for the first failure after start or after a successful connect, doubles
\* with each further failure in a row and is capped at 60 s; it is always
\* within [5, 60].
ReconnectBackoff ==
    /\ [](client.reconnect_delay >= InitialDelay
          /\ client.reconnect_delay <= MaxDelay)
    /\ [][Backoff => client.reconnect_delay = ExpectedDelay(client.fails)]_vars

\* C26 Cache hit: a task of the type and description of a task the agent has
\* executed before with result R is answered with R from the cache, the
\* executor does not run again, and a TASK_COMPLETE with R is sent.
CacheHit ==
    [][\A i \in 1..Len(events) :
          (/\ ExecuteTask(FALSE)
           /\ events[i].kind = "executed"
           /\ events[i].task.type = Head(client.task_queue).type
           /\ events[i].task.description
                  = Head(client.task_queue).description)
          => (/\ events'[Len(events')].kind = "cached"
              /\ events'[Len(events')].result = events[i].result
              /\ events'[Len(events')].sent)]_vars

\* C27 An exception raised while the agent executes a task leaves the
\* connection open and the session and the task processor running, and the
\* task is taken off the agent's queue.
TaskErrorContained ==
    [][ExecuteTask(TRUE)
          => (/\ client'.ws = "open"
              /\ client'.pc = client.pc
              /\ client'.processor = "running"
              /\ client'.task_queue = Tail(client.task_queue))]_vars

\* A task raised and the task after it in the queue was executed and
\* reported, on the same connection.
ExecutedAfterError ==
    /\ Len(events) = 2
    /\ events[1].kind = "error"
    /\ events[2].kind = "executed"
    /\ events[2].sent
    /\ client.attempts = 1
    /\ client.ws = "open"

\* C29 Heartbeat monitor: a monitor pass sets to unresponsive exactly the
\* agents that have a last_heartbeat older than 60 s; it leaves every other
\* agent, with or without a last_heartbeat, as it was and removes none.
HeartbeatMonitor ==
    [][MonitorPass
          => (/\ DOMAIN agents' = DOMAIN agents
              /\ \A a \in DOMAIN agents :
                    IF agents[a].last_heartbeat # NoTime
                         /\ now - agents[a].last_heartbeat > 60
                      THEN agents'[a].status = "unresponsive"
                      ELSE agents'[a] = agents[a])]_vars

\* After 90 s the agent that sent one heartbeat at the start is unresponsive
\* and the agent that never sent one is still idle.
MarkedUnresponsive ==
    /\ now = 90
    /\ DOMAIN agents = AgentIds
    /\ \E a \in AgentIds, b \in AgentIds :
          /\ agents[a].last_heartbeat = 0
          /\ agents[a].status = "unresponsive"
          /\ agents[b].last_heartbeat = NoTime
          /\ agents[b].status = "idle"

\* The broadcast of the handler of stream s has yet to send its frame on
\* stream t: t is the stream of the send in progress or of an agent further
\* down the inventory.
BroadcastPending(s, t) ==
    /\ conn[s].pc = "bcast"
    /\ <<s, t>> \notin status_sent
    /\ \/ bcast[s].ws = t
       \/ \E j \in (bcast[s].i + 1)..bcast[s].n :
             j <= Len(AgentOrder) /\ agents[AgentOrder[j]].websocket = t

\* C28 Broadcast isolation: a send of a status broadcast that fails or stalls
\* does not keep the frame from the other agents: a broadcast that owes its
\* frame to an open stream whose peer is reading does not owe it for ever.
BroadcastIsolation ==
    \A s \in Streams, t \in Streams :
        (BroadcastPending(s, t) /\ ws_open[t] /\ ~Blocked(t))
            ~> ~(BroadcastPending(s, t) /\ ws_open[t] /\ ~Blocked(t))

\* C30 Assignment ordering per agent: a TASK_ASSIGNMENT frame goes out on a
\* stream only after the SYSTEM_STATUS_UPDATE of the registration made on that
\* stream has gone out on it.
StatusBeforeAssignment ==
    [][\A s \in Streams :
          (conn[s].pc = "recv" /\ conn'[s].pc = "send"
              /\ ws_open[conn'[s].ws])
            => <<conn'[s].ws, conn'[s].ws>> \in status_sent]_vars

\* Every handler is between two frames (or has ended).
BetweenHandlers == \A s \in Streams : conn[s].pc \in {"recv", "done"}

\* C37 Load accounting: between message handlers the router's current_load
\* of every agent equals the number of active-map entries owned by that agent.
LoadAccounting ==
    BetweenHandlers
        => \A a \in DOMAIN router_agents :
              router_agents[a].current_load = Cardinality(ActiveOf(a))

\* C38 Stale stream close: the close of a stream that is not the agent's
\* current session handle leaves the agent's status as it was; only the close
\* of the current handle marks the agent disconnected.
StaleStreamClose ==
    [][\A s \in Streams :
          ConnectionClosed(s)
            => \A a \in DOMAIN agents :
                  agents[a].websocket # s
                    => agents'[a].status = agents[a].status]_vars

\* C40 Completion is credited to the owner: an accepted TASK_COMPLETE updates
\* the router counters and the status of the agent the active-map records as
\* owner of the task, and of no other agent, whatever agent_id the frame
\* carries.
CompletionCreditsOwner ==
    [][\A s \in Streams, tid \in 0..MaxTasks, a \in AgentIds :
          (tid \in DOMAIN active_tasks /\ TaskComplete(s, tid, a))
            => LET owner == active_tasks[tid].agent
               IN /\ \A b \in DOMAIN router_agents :
                        b # owner => router_agents'[b] = router_agents[b]
                  /\ \A b \in DOMAIN agents :
                        b # owner => agents'[b].status = agents[b].status
                  /\ owner \in DOMAIN router_agents
                        => router_agents'[owner].total_tasks
                              = router_agents[owner].total_tasks + 1]_vars

\* C35 Dashboard task ids: the id add_task generates for a task submitted
\* without one differs from the id of every task in the dashboard's queue,
\* active tasks and completed tasks.
DashboardIdsFresh ==
    [][DashAddTask(NoId) => dash_queue'[Len(dash_queue')] \notin DashIds]_vars

\* C32 Rebalance: rebalance returns exactly one reduce_load action for each
\* agent whose current_load is above 1.5 times the mean load and above 2,
\* with the floor of the mean as recommended load, none for any other agent,
\* and the empty list when there are no agents.
Rebalance ==
    [][RebalanceCall =>
         LET acts == ret'[2]
             n == Len(router_keys)
             sum == SumLoads(router_keys, router_agents)
         IN /\ n = 0 => acts = <<>>
            /\ \A a \in AgentIds :
                  Cardinality({i \in 1..Len(acts) : acts[i].agent_id = a})
                    = IF /\ a \in DOMAIN router_agents
                         /\ 10 * n * router_agents[a].current_load > 15 * sum
                         /\ router_agents[a].current_load > 2
                        THEN 1 ELSE 0
            /\ \A i \in 1..Len(acts) :
                  /\ acts[i].action = "reduce_load"
                  /\ acts[i].recommended_load * n <= sum
                  /\ (acts[i].recommended_load + 1) * n > sum]_vars

\* rebalance has returned one action, for an agent of load 3 next to an agent
\* of load 0, recommending load 1.
RebalanceActed ==
    /\ ret[1] = "rebalance"
    /\ Len(ret[2]) = 1
    /\ ret[2][1].recommended_load = 1
    /\ Len(router_keys) = 2
    /\ router_agents[ret[2][1].agent_id].current_load = 3

\* The score _calculate_agent_score would give the agent had it no
\* last_task_time: every term but the idle-fairness bonus.
ScoreWithoutIdleTerm(a, task) ==
    CalculateAgentScore([router_agents EXCEPT ![a].last_task_time = NoTime],
                        task_history, now, a, task)

\* C33 Idle-fairness bonus: the score of an agent includes the +10 bonus if
\* and only if more than 300 seconds have passed since its last_task_time,
\* whatever the time passed, a day or more included.
IdleFairnessBonus ==
    ret[1] = "score"
        => ((ret[4] - ScoreWithoutIdleTerm(ret[2], ret[3]) = 10 * 1000)
              <=> (now - router_agents[ret[2]].last_task_time > 300))

\* C34 Second task goes to the other agent: with two agents of identical
\* capabilities and zero counters, one of them holding the first routed task
\* and the other none, route for a second task of the same type selects the
\* other agent.
SecondTaskOtherAgent ==
    [][\A task \in RouterTasks, x \in AgentIds, y \in AgentIds :
          (/\ x # y
           /\ DOMAIN router_agents = {x, y}
           /\ router_agents[x].capabilities = router_agents[y].capabilities
           /\ router_agents[x]
                 = LoadedAgent(router_agents[x].capabilities, 1)
           /\ router_agents[y] = NewRouterAgent(router_agents[y].capabilities)
           /\ task_history = <<>>
           /\ LogLen(routing_stats) = 1
           /\ task.type \in DOMAIN routing_stats
           /\ routing_stats[task.type][1].selected_agent = x
           /\ RouteTaskCall(task))
            => /\ Len(routing_stats'[task.type]) = 2
               /\ routing_stats'[task.type][2].selected_agent = y
               /\ router_agents'[y].current_load = 1
               /\ router_agents'[x].current_load = 1]_vars

\* Two tasks of one type were routed to two agents of identical capabilities,
\* one each, and none has completed.
RoutedOneEach ==
    /\ DOMAIN router_agents = AgentIds
    /\ router_agents["A"].capabilities = router_agents["B"].capabilities
    /\ task_history = <<>>
    /\ LogLen(routing_stats) = 2
    /\ \E ty \in DOMAIN routing_stats :
          /\ Len(routing_stats[ty]) = 2
          /\ routing_stats[ty][1].selected_agent
                # routing_stats[ty][2].selected_agent
    /\ \A a \in AgentIds : router_agents[a].current_load = 1

\* C31 Register first: the first frame the client writes to every connection
\* it opens is AGENT_REGISTER, no HEARTBEAT, TASK_REQUEST or TASK_COMPLETE
\* precedes it, and with auto_request_tasks a TASK_REQUEST follows it once the
\* session runs.
RegisterFirst ==
    /\ client.frames # <<>> =>
          /\ client.frames[1] = "AGENT_REGISTER"
          /\ \A i \in 2..Len(client.frames) :
                client.frames[i] # "AGENT_REGISTER"
    /\ (AutoRequestTasks /\ client.pc = "run") =>
          \E i \in 2..Len(client.frames) : client.frames[i] = "TASK_REQUEST"

\* On a reconnection, with the heartbeat worker of the earlier session still
\* alive, a heartbeat has gone out after the registration.
ReconnectedAndRegistered ==
    /\ client.attempts >= 2
    /\ client.workers.heartbeat >= 2
    /\ client.pc = "run"
    /\ client.frames[1] = "AGENT_REGISTER"
    /\ \E i \in 2..Len(client.frames) : client.frames[i] = "HEARTBEAT"

\* C36 Single worker set: the client runs at most one task processor, one
\* heartbeat worker, one auto-request worker and one message receiver at any
\* time, also after reconnecting.
SingleWorkerSet ==
    /\ client.workers.processor <= 1
    /\ client.workers.heartbeat <= 1
    /\ client.workers.auto_request <= 1
    /\ client.workers.receiver <= 1

\* C39 Agent returns to idle: after the client has handled a task, whether
\* the execution returned or raised, its status becomes idle again.
ReturnsToIdle ==
    \A n \in 1..MaxClientTasks :
        (Len(events) = n) ~> (client.status = "idle")

====
